---------------------------- MODULE Spec2Model ----------------------------
(***************************************************************************)
(* Model of the reverse pipeline's batch runner                            *)
(* (reverse_ml_biooil_to_product/automation_scripts): AutomationRunner.run *)
(* driving AspenInterface and DatabaseOperations over the simulation       *)
(* matrix.  The simulator (COM) and the SQL store are the environment:     *)
(* every call into them draws its outcome from a small set.                *)
(* The two data-preparation scripts that build the matrix                  *)
(* (scripts/phase2_data_prep: generate_doe_matrix.py and                   *)
(* create_simulation_matrix.py) are modelled as programs of their own.     *)
(***************************************************************************)
EXTENDS Integers, Sequences, FiniteSets, TLC

(***************************************************************************)
(* Bounds of the model.                                                    *)
(***************************************************************************)
MaxCompositions == 2
MaxConditions == 2
MaxBatchSize == 2
MaxRuns == 2
MaxLevels == 3
MaxWorklist == 8
MaxSlice == 3
MaxTimeout == 3
MaxTick == 2

(***************************************************************************)
(* Program constants.                                                      *)
(***************************************************************************)
PROGRESS_UPDATE_FREQ == 1
PAUSE_BETWEEN_BATCHES == TRUE

VARIABLES
    pc,             \* position of the run: which step of AutomationRunner.run is next
    stats,          \* self.stats, a dict: key -> counter
    csv,            \* the rows of the matrix file config.INPUT_DATA_PATH
    df,             \* the worklist (DataFrame) held by run()
    BATCH_SIZE,     \* config.BATCH_SIZE of this installation
    resume,         \* the resume argument of run()
    store,          \* table AspenSimulation: the header records, in insert order
    sub,            \* rows of the four child tables: <<Simulation_Id, table>>
    aspenOpen,      \* AspenInterface.aspen is not None
    dbOpen,         \* DatabaseOperations.conn is not None
    batch_num,      \* loop variable of run()
    idx,            \* 1-based position in df of the next row of the batch
    total_batches,  \* total_batches of run(); 0 until step 6 computes it
    ret,            \* what run() returned: "none", "True" or "False"
    exc,            \* the exception that ended run(), [type, site]
    summaryPrinted, \* the final print_summary of step 7 completed
    interrupted,    \* the operator pressed Ctrl+C during a pause
    filtered,       \* step 5 of run() is done
    reported,       \* the set run() got from get_completed_simulations
    log,            \* history: one entry per executed task of this run
    runNo,          \* number of the current invocation of main()
    doe,            \* generate_doe_matrix.py: position, PARAMETERS, frame, file, exit code
    mx,             \* create_simulation_matrix.py: position, inputs, matrix, file, exit code
    batches,        \* the df_batch slices run() has taken, in order
    sim,            \* one call of AspenInterface.run_simulation: position, clock, result
    past            \* history: the log entries of the earlier invocations of main()

vars == <<pc, stats, csv, df, BATCH_SIZE, resume, store, sub, aspenOpen, dbOpen,
          batch_num, idx, total_batches, ret, exc, summaryPrinted, interrupted,
          filtered, reported, log, runNo, doe, mx, batches, sim, past>>

-----------------------------------------------------------------------------
(***************************************************************************)
(* Helpers.                                                                *)
(***************************************************************************)
Min(a, b) == IF a < b THEN a ELSE b

NoExc == [type |-> "none", site |-> "none"]

Terminated == {"returned", "crashed"}

\* The matrix file written by create_simulation_matrix for M compositions and
\* K conditions: SimulationId 1..M*K, conditions fastest.
MatrixFile(M, K) ==
    [s \in 1..(M * K) |->
        [SimulationId |-> s,
         BiooilId |-> ((s - 1) \div K) + 1,
         ConditionId |-> ((s - 1) % K) + 1]]

\* self.stats after __init__: there is no 'error' key.
InitStats ==
    [k \in {"total", "completed", "converged", "failed", "skipped", "current_batch"} |-> 0]

-----------------------------------------------------------------------------
(***************************************************************************)
(* The environment of one task execution.  fail names the first step that  *)
(* goes wrong:                                                             *)
(*   prepare          prepare_bio_oil_composition raises (a bad cell)      *)
(*   set_composition  AspenInterface.set_biooil_composition returns False  *)
(*   set_conditions   AspenInterface.set_process_conditions returns False  *)
(*   run_raise        Engine.Run2() raises inside run_simulation           *)
(*   no_converge      the run completes with a status without "Converged"  *)
(*   timeout          no status becomes available before ASPEN_TIMEOUT     *)
(*   extract_h2       extract_h2_properties returns None                   *)
(*   insert_header    insert_simulation returns None                       *)
(*   late_raise       a statement after the header insert raises (the      *)
(*                    verbose line formats a yield that is None)           *)
(* subFail: the child tables whose insert returns False; noData: the       *)
(* optional extractions that return None; markOk: whether the insert of    *)
(* mark_simulation_failed succeeds.                                        *)
(***************************************************************************)
SubTables == {"ReformingConditions", "HydrogenProduct", "SyngasComposition", "EnergyBalance"}

OptionalData == {"SyngasComposition", "EnergyBalance"}

Env(f, sf, nd, m) == [fail |-> f, subFail |-> sf, noData |-> nd, markOk |-> m]

PersistCases ==
    {<<{}, {}>>} \cup {<<{t}, {}>> : t \in SubTables} \cup {<<{}, {t}>> : t \in OptionalData}

TaskEnvs ==
    {Env(f, {}, {}, m) :
        f \in {"prepare", "run_raise", "no_converge", "timeout", "extract_h2"},
        m \in BOOLEAN}
    \cup {Env(f, {}, {}, TRUE) : f \in {"set_composition", "set_conditions", "insert_header"}}
    \cup {Env("none", c[1], c[2], TRUE) : c \in PersistCases}
    \cup {Env("late_raise", {}, {}, m) : m \in BOOLEAN}

-----------------------------------------------------------------------------
(***************************************************************************)
(* DatabaseOperations.                                                     *)
(***************************************************************************)
Header(biooil_id, status, warnings, notes) ==
    [Biooil_Id |-> biooil_id, ConvergenceStatus |-> status,
     Warnings |-> warnings, Notes |-> notes]

\* insert_simulation: the store with the header appended; the generated id
\* (@@IDENTITY) is the new row's position.  Notes carries the SimulationId
\* ('Automation: SimId n').
insert_simulation(st, biooil_id, convergence_status, sim_id) ==
    Append(st, Header(biooil_id, convergence_status, "NULL", sim_id))

\* mark_simulation_failed with the new header put in front of the others
mark_simulation_failed_first(st, biooil_id, error_message, ok) ==
    IF ok
    THEN <<Header(biooil_id, "Failed", error_message, 0)>> \o st
    ELSE st

\* mark_simulation_failed: a header with status 'Failed' whatever the cause;
\* when the insert fails the exception is swallowed and nothing is written.
\* Its Notes are the fixed text 'Automation: Failed to converge', which names
\* no SimulationId: 0 here.
mark_simulation_failed(st, biooil_id, error_message, ok) ==
    IF ok
    THEN Append(st, Header(biooil_id, "Failed", error_message, 0))
    ELSE st

\* get_completed_simulations: SELECT DISTINCT Biooil_Id ... WHERE
\* ConvergenceStatus IN ('Converged', 'Failed'); set() when the query fails.
get_completed_simulations(st, ok) ==
    IF ok
    THEN {st[i].Biooil_Id : i \in {j \in 1..Len(st) : st[j].ConvergenceStatus \in {"Converged", "Failed"}}}
    ELSE {}

-----------------------------------------------------------------------------
(***************************************************************************)
(* AspenInterface.run_simulation: True only for a status that contains     *)
(* "Converged"; an exception of Run2 is caught and gives False.            *)
(***************************************************************************)
run_simulation(env) ==
    CASE env.fail = "run_raise" -> FALSE
      [] env.fail = "timeout" -> FALSE
      [] env.fail = "no_converge" -> FALSE
      [] OTHER -> TRUE

\* no status will ever be readable
Never == 0 - 1

\* get_convergence_status (lines 192-200) at clock value t: the node holds
\* a value from the moment ready_at on; before that (and when the read
\* raises) the result is None
get_convergence_status(s, t) ==
    IF s.ready_at # Never /\ t >= s.ready_at THEN s.outcome ELSE "None"

\* run_simulation is not running
SimIdle ==
    [pc |-> "idle", timeout |-> 0, ready_at |-> Never, outcome |-> "Converged",
     now |-> 0, elapsed |-> 0, polls |-> 0, ret |-> FALSE]

(***************************************************************************)
(* AutomationRunner.run_single_simulation on one row, in environment env,  *)
(* from store st and child rows sb: the result and what the store holds    *)
(* afterwards.                                                             *)
(***************************************************************************)
TaskEnd(result, st, sb) == [result |-> result, store |-> st, sub |-> sb]

\* steps 5ff: header insert, child inserts, the verbose line
persist_result(row, env, st, sb) ==
    IF env.fail = "insert_header"
    THEN TaskEnd("error", st, sb)
    ELSE LET st1 == insert_simulation(st, row.BiooilId, "Converged", row.SimulationId)
             db_sim_id == Len(st1)
             sb1 == sb \cup {<<db_sim_id, t>> : t \in SubTables \ (env.subFail \cup env.noData)}
         IN  IF env.fail = "late_raise"
             THEN TaskEnd("error",
                          mark_simulation_failed(st1, row.BiooilId, "exception", env.markOk),
                          sb1)
             ELSE TaskEnd("converged", st1, sb1)

run_single_simulation(row, env, st, sb) ==
    CASE env.fail = "prepare" ->
            TaskEnd("error",
                    mark_simulation_failed(st, row.BiooilId, "exception", env.markOk), sb)
      [] env.fail = "set_composition" -> TaskEnd("error", st, sb)
      [] env.fail = "set_conditions" -> TaskEnd("error", st, sb)
      [] OTHER ->
            IF ~run_simulation(env)
            THEN TaskEnd("failed",
                         mark_simulation_failed(st, row.BiooilId, "Did not converge", env.markOk),
                         sb)
            ELSE IF env.fail = "extract_h2"
            THEN TaskEnd("error",
                         mark_simulation_failed(st, row.BiooilId, "Failed to extract H2 data",
                                                env.markOk),
                         sb)
            ELSE persist_result(row, env, st, sb)

-----------------------------------------------------------------------------
(***************************************************************************)
(* Statistics.                                                             *)
(***************************************************************************)
\* print_progress: divides by stats['total'].
print_progress(s) ==
    IF s["total"] = 0 THEN "ZeroDivisionError" ELSE "ok"

\* print_summary: divides by stats['completed'] (line 298), then reads
\* stats['error'] (line 300).
print_summary(s) ==
    IF s["completed"] = 0 THEN "ZeroDivisionError"
    ELSE IF "error" \notin DOMAIN s THEN "KeyError"
    ELSE "ok"

\* run_batch, lines 222-229: the statistics update after one task.
update_statistics(s, result) ==
    IF result \notin DOMAIN s
    THEN [exc |-> "KeyError", site |-> "run_batch", stats |-> s]
    ELSE LET s1 == [s EXCEPT ![result] = @ + 1, !["completed"] = @ + 1]
         IN  IF s1["completed"] % PROGRESS_UPDATE_FREQ = 0
             THEN [exc |-> print_progress(s1), site |-> "print_progress", stats |-> s1]
             ELSE [exc |-> "ok", site |-> "run_batch", stats |-> s1]

\* the filter of line 352 with the negation dropped: keeps the completed rows
filter_completed_inverted(d, completed) ==
    SelectSeq(d, LAMBDA row : row.BiooilId \in completed)

\* run(), line 352: df[~df['BiooilId'].isin(completed)]
filter_completed(d, completed) ==
    SelectSeq(d, LAMBDA row : row.BiooilId \notin completed)

-----------------------------------------------------------------------------
(***************************************************************************)
(* scripts/phase2_data_prep/generate_doe_matrix.py.                        *)
(* A level is a rational number [num, den]: the levels linspace gives for  *)
(* integer bounds are multiples of 1/(levels - 1).  Floating-point         *)
(* rounding of the levels is not modelled.                                 *)
(***************************************************************************)
Q(n, d) == [num |-> n, den |-> d]

Less(x, y) == x.num * y.den < y.num * x.den

Abs(i) == IF i < 0 THEN 0 - i ELSE i

\* the declared parameter ranges (module constant PARAMETERS)
PARAMETERS ==
    [ReformerTemperature_C |-> [min |-> 650, max |-> 850, levels |-> 5],
     ReformerPressure_bar |-> [min |-> 5, max |-> 30, levels |-> 3],
     SteamToCarbonRatio |-> [min |-> 2, max |-> 6, levels |-> 3]]

ParamNames == {"ReformerTemperature_C", "ReformerPressure_bar", "SteamToCarbonRatio"}

\* np.linspace with endpoint=False: the step is (stop - start) / num
linspace_open(start, stop, num) ==
    [i \in 1..num |-> Q(start * num + (i - 1) * (stop - start), num)]

\* np.linspace(start, stop, num), num >= 0: num = 1 gives [start] alone,
\* num = 0 gives the empty array, otherwise the step is (stop - start) / (num - 1)
linspace(start, stop, num) ==
    [i \in 1..num |->
        IF num = 1
        THEN Q(start, 1)
        ELSE Q(start * (num - 1) + (i - 1) * (stop - start), num - 1)]

\* generate_parameter_levels (lines 66-80); np.linspace raises ValueError
\* for a negative number of samples
generate_parameter_levels(param_config) ==
    linspace(param_config.min, param_config.max, param_config.levels)

RECURSIVE Concat(_)
Concat(ss) == IF ss = <<>> THEN <<>> ELSE Head(ss) \o Concat(Tail(ss))

\* zip in place of itertools.product: the levels are paired position by position
product_zip(a, b, c) ==
    [n \in 1..Min(Len(a), Min(Len(b), Len(c))) |-> <<a[n], b[n], c[n]>>]

\* itertools.product(a, b, c): three nested loops, the last iterable innermost
product(a, b, c) ==
    Concat([i \in 1..Len(a) |->
        Concat([j \in 1..Len(b) |->
            [k \in 1..Len(c) |-> <<a[i], b[j], c[k]>>]])])

\* generate_doe_matrix with the columns of the product taken in reverse:
\* the temperature becomes the fastest parameter
generate_doe_matrix_reversed(P) ==
    LET temp_levels == generate_parameter_levels(P.ReformerTemperature_C)
        pressure_levels == generate_parameter_levels(P.ReformerPressure_bar)
        sc_ratio_levels == generate_parameter_levels(P.SteamToCarbonRatio)
        combinations == product(sc_ratio_levels, pressure_levels, temp_levels)
    IN  [n \in 1..Len(combinations) |->
            [ConditionId |-> n,
             ReformerTemperature_C |-> combinations[n][3],
             ReformerPressure_bar |-> combinations[n][2],
             SteamToCarbonRatio |-> combinations[n][1],
             HTS_Temperature_C |-> 370,
             LTS_Temperature_C |-> 210,
             PSA_Pressure_bar |-> 25,
             BiooilFeedRate_kgh |-> 100,
             SteamFeedRate_kgh |-> Q(9 * combinations[n][1].num, combinations[n][1].den)]]

\* generate_doe_matrix (lines 83-123): the frame of all combinations, the
\* ConditionId by position, the fixed columns, the steam feed rate
\* S/C * 100 * 0.018 * 5
generate_doe_matrix(P) ==
    LET temp_levels == generate_parameter_levels(P.ReformerTemperature_C)
        pressure_levels == generate_parameter_levels(P.ReformerPressure_bar)
        sc_ratio_levels == generate_parameter_levels(P.SteamToCarbonRatio)
        combinations == product(temp_levels, pressure_levels, sc_ratio_levels)
    IN  [n \in 1..Len(combinations) |->
            [ConditionId |-> n,
             ReformerTemperature_C |-> combinations[n][1],
             ReformerPressure_bar |-> combinations[n][2],
             SteamToCarbonRatio |-> combinations[n][3],
             HTS_Temperature_C |-> 370,
             LTS_Temperature_C |-> 210,
             PSA_Pressure_bar |-> 25,
             BiooilFeedRate_kgh |-> 100,
             SteamFeedRate_kgh |-> Q(9 * combinations[n][3].num, combinations[n][3].den)]]

\* the three parameter columns of a row (subset= of line 149)
Combination(row) ==
    <<row.ReformerTemperature_C, row.ReformerPressure_bar, row.SteamToCarbonRatio>>

\* df[param].min() and df[param].max() of a frame with at least one row
ColMin(d, param) ==
    CHOOSE v \in {d[i][param] : i \in 1..Len(d)} :
        \A w \in {d[i][param] : i \in 1..Len(d)} : ~Less(w, v)

ColMax(d, param) ==
    CHOOSE v \in {d[i][param] : i \in 1..Len(d)} :
        \A w \in {d[i][param] : i \in 1..Len(d)} : ~Less(v, w)

\* abs(v - expected) > 0.01
Mismatch(v, expected) == 100 * Abs(v.num - expected * v.den) > v.den

\* validate_doe_matrix (lines 126-175).  The frame has no missing value.
\* The min and max of an empty column are NaN, and every comparison with
\* NaN is false: an empty frame passes the range check.
validate_doe_matrix(d, P) ==
    /\ ~ \E i, j \in 1..Len(d) : i < j /\ Combination(d[i]) = Combination(d[j])
    /\ \A param \in ParamNames :
          \/ Len(d) = 0
          \/ /\ ~Mismatch(ColMin(d, param), P[param].min)
             /\ ~Mismatch(ColMax(d, param), P[param].max)

\* '%.4f' % v, in units of 1/10000 (v >= 0)
Format4(v) == (2 * 10000 * v.num + v.den) \div (2 * v.den)

\* df.to_csv(filepath, index=False, float_format='%.4f') (line 199): the
\* float columns are written with four decimals, ConditionId as an integer
doe_to_csv(d) ==
    [n \in 1..Len(d) |->
        [ConditionId |-> d[n].ConditionId,
         ReformerTemperature_C |-> Format4(d[n].ReformerTemperature_C),
         ReformerPressure_bar |-> Format4(d[n].ReformerPressure_bar),
         SteamToCarbonRatio |-> Format4(d[n].SteamToCarbonRatio),
         HTS_Temperature_C |-> 370 * 10000,
         LTS_Temperature_C |-> 210 * 10000,
         PSA_Pressure_bar |-> 25 * 10000,
         BiooilFeedRate_kgh |-> 100 * 10000,
         SteamFeedRate_kgh |-> Format4(d[n].SteamFeedRate_kgh)]]

NoFile == [written |-> FALSE, rows |-> <<>>]

\* generate_doe_matrix.py is not running
DoeIdle ==
    [pc |-> "idle", params |-> PARAMETERS, levels |-> [param \in ParamNames |-> <<>>],
     df |-> <<>>, valid |-> FALSE, file |-> NoFile, exit |-> "none"]

(***************************************************************************)
(* scripts/phase2_data_prep/create_simulation_matrix.py.                   *)
(* A row of the bio-oil file is its BiooilId, a row of the DOE file its    *)
(* ConditionId; the other columns are carried along unchanged.             *)
(***************************************************************************)
\* the merge with its arguments exchanged: the conditions are the outer loop
merge_conditions_outer(biooil_df, doe_df) ==
    Concat([j \in 1..Len(doe_df) |->
        [i \in 1..Len(biooil_df) |->
            [BiooilId |-> biooil_df[i].BiooilId, ConditionId |-> doe_df[j].ConditionId]]])

\* pd.merge(biooil_df, doe_df, on='_merge_key') (line 91): every left row
\* with every right row, the left rows in order, the right rows in order
\* within each left row
merge(biooil_df, doe_df) ==
    Concat([i \in 1..Len(biooil_df) |->
        [j \in 1..Len(doe_df) |->
            [BiooilId |-> biooil_df[i].BiooilId, ConditionId |-> doe_df[j].ConditionId]]])

\* create_simulation_matrix with SimulationId range(0, len): ids from 0
create_simulation_matrix_from_zero(biooil_df, doe_df) ==
    LET sim_matrix == merge(biooil_df, doe_df)
    IN  [n \in 1..Len(sim_matrix) |->
            [SimulationId |-> n - 1,
             BiooilId |-> sim_matrix[n].BiooilId,
             ConditionId |-> sim_matrix[n].ConditionId]]

\* create_simulation_matrix (lines 79-105): the cross product and the
\* SimulationId range(1, len + 1) by position
create_simulation_matrix(biooil_df, doe_df) ==
    LET sim_matrix == merge(biooil_df, doe_df)
    IN  [n \in 1..Len(sim_matrix) |->
            [SimulationId |-> n,
             BiooilId |-> sim_matrix[n].BiooilId,
             ConditionId |-> sim_matrix[n].ConditionId]]

\* validate_simulation_matrix, lines 182 and 215: the expected size of the
\* matrix and the expected number of rows of each bio-oil are literals
expected_count == 1350

expected_per_biooil == 45

\* df['BiooilId'].value_counts(): bio-oil id -> number of its rows
value_counts(d) ==
    [b \in {d[i].BiooilId : i \in 1..Len(d)} |->
        Cardinality({i \in 1..Len(d) : d[i].BiooilId = b})]

\* validate_simulation_matrix (lines 172-230): TRUE iff no issue was found.
\* No column of the matrix has a missing value.
validate_simulation_matrix(d) ==
    /\ Len(d) = expected_count
    /\ Cardinality({d[i].SimulationId : i \in 1..Len(d)}) = Len(d)
    /\ \A b \in DOMAIN value_counts(d) : value_counts(d)[b] = expected_per_biooil

\* create_simulation_matrix.py is not running
MxIdle ==
    [pc |-> "idle", biooil_file |-> <<>>, doe_file |-> <<>>, biooil_df |-> <<>>,
     doe_df |-> <<>>, sim_matrix |-> <<>>,
     validated |-> FALSE, valid |-> FALSE, file |-> NoFile, exit |-> "none"]

-----------------------------------------------------------------------------
(***************************************************************************)
(* The state after construction: AutomationRunner.__init__ has run, run()  *)
(* is about to start.  The matrix file holds M x K rows; the store is      *)
(* empty or holds one header of an earlier run (Converged, or Failed for   *)
(* the first bio-oil) or of another data set (ForeignId: a bio-oil that is *)
(* not in this matrix).                                                    *)
(***************************************************************************)
ForeignId == MaxCompositions + 1

PriorStores ==
    {<<>>, <<Header(1, "Failed", "Did not converge", 0)>>}
    \cup {<<Header(i, "Converged", "NULL", 0)>> : i \in 1..ForeignId}

Init ==
    /\ pc = "connect_aspen"
    /\ stats = InitStats
    /\ \E M \in 0..MaxCompositions, K \in 1..MaxConditions : csv = MatrixFile(M, K)
    /\ df = <<>>
    /\ BATCH_SIZE \in 1..MaxBatchSize
    /\ resume \in BOOLEAN
    /\ store \in PriorStores
    /\ sub = {}
    /\ aspenOpen = FALSE
    /\ dbOpen = FALSE
    /\ batch_num = 0
    /\ idx = 0
    /\ total_batches = 0
    /\ ret = "none"
    /\ exc = NoExc
    /\ summaryPrinted = FALSE
    /\ interrupted = FALSE
    /\ filtered = FALSE
    /\ reported = {}
    /\ log = <<>>
    /\ runNo = 1
    /\ doe = DoeIdle
    /\ mx = MxIdle
    /\ batches = <<>>
    /\ sim = SimIdle
    /\ past = <<>>

\* run() returns v
Return(v) ==
    /\ pc' = "returned"
    /\ ret' = v

\* an exception leaves run(): main() has no handler, the process dies
Raise(type, site) ==
    /\ pc' = "crashed"
    /\ exc' = [type |-> type, site |-> site]

\* run(), step 1 (lines 326-329)
aspen_connect ==
    /\ pc = "connect_aspen"
    /\ \E ok \in BOOLEAN :
          IF ok
          THEN /\ aspenOpen' = TRUE
               /\ pc' = "load_model"
               /\ UNCHANGED ret
          ELSE /\ Return("False")
               /\ UNCHANGED aspenOpen
    /\ UNCHANGED <<stats, csv, df, BATCH_SIZE, resume, store, sub, dbOpen, batch_num, idx,
                   total_batches, exc, summaryPrinted, interrupted, filtered, reported,
                   log, runNo>>
    /\ UNCHANGED <<doe, mx, batches, sim, past>>

\* run(), step 2 (lines 331-334)
aspen_load_model ==
    /\ pc = "load_model"
    /\ \E ok \in BOOLEAN :
          IF ok
          THEN /\ pc' = "connect_db"
               /\ UNCHANGED ret
          ELSE Return("False")
    /\ UNCHANGED <<stats, csv, df, BATCH_SIZE, resume, store, sub, aspenOpen, dbOpen,
                   batch_num, idx, total_batches, exc, summaryPrinted, interrupted,
                   filtered, reported, log, runNo>>
    /\ UNCHANGED <<doe, mx, batches, sim, past>>

\* run(), step 3 (lines 336-339)
db_connect ==
    /\ pc = "connect_db"
    /\ \E ok \in BOOLEAN :
          IF ok
          THEN /\ dbOpen' = TRUE
               /\ pc' = "load_matrix"
               /\ UNCHANGED ret
          ELSE /\ Return("False")
               /\ UNCHANGED dbOpen
    /\ UNCHANGED <<stats, csv, df, BATCH_SIZE, resume, store, sub, aspenOpen, batch_num,
                   idx, total_batches, exc, summaryPrinted, interrupted, filtered,
                   reported, log, runNo>>
    /\ UNCHANGED <<doe, mx, batches, sim, past>>

\* run(), step 4 (lines 341-345) with load_simulation_matrix (lines 47-59)
load_simulation_matrix ==
    /\ pc = "load_matrix"
    /\ \E ok \in BOOLEAN :
          IF ok
          THEN /\ df' = csv
               /\ stats' = [stats EXCEPT !["total"] = Len(csv)]
               /\ pc' = "resume"
               /\ UNCHANGED ret
          ELSE /\ Return("False")
               /\ UNCHANGED <<df, stats>>
    /\ UNCHANGED <<csv, BATCH_SIZE, resume, store, sub, aspenOpen, dbOpen, batch_num, idx,
                   total_batches, exc, summaryPrinted, interrupted, filtered, reported,
                   log, runNo>>
    /\ UNCHANGED <<doe, mx, batches, sim, past>>


\* the number of batches by floor division: a short last batch is not counted
TotalBatches_floor(n, b) == n \div b

\* line 362: (len(df) + BATCH_SIZE - 1) // BATCH_SIZE
TotalBatches(n, b) == (n + b - 1) \div b

\* run(), step 5 and the head of step 6 (lines 347-363)
resume_filter ==
    /\ pc = "resume"
    /\ \E ok \in BOOLEAN :
          LET completed == IF resume THEN get_completed_simulations(store, ok) ELSE {}
              df1 == IF completed # {} THEN filter_completed(df, completed) ELSE df
              n == TotalBatches(Len(df1), BATCH_SIZE)
          IN  /\ reported' = completed
              /\ df' = df1
              /\ stats' = IF completed # {}
                          THEN [stats EXCEPT !["skipped"] = Cardinality(completed)]
                          ELSE stats
              /\ IF completed # {} /\ Len(df1) = 0
                 THEN /\ Return("True")
                      /\ UNCHANGED <<total_batches, batch_num, idx>>
                 ELSE /\ total_batches' = n
                      /\ batch_num' = 1
                      /\ idx' = 1
                      /\ pc' = IF n = 0 THEN "final" ELSE "run_batch"
                      /\ UNCHANGED ret
    /\ filtered' = TRUE
    /\ UNCHANGED <<csv, BATCH_SIZE, resume, store, sub, aspenOpen, dbOpen, exc,
                   summaryPrinted, interrupted, log, runNo>>
    /\ UNCHANGED <<doe, mx, batches, sim, past>>

\* run_batch (lines 218-229): one iteration of the loop over the rows
\* start_idx..end_idx of the batch, run_single_simulation included.
EndIdx == Min(batch_num * BATCH_SIZE, Len(df))

run_batch ==
    /\ pc = "run_batch"
    /\ \E env \in TaskEnvs :
          LET row == df[idx]
              r == run_single_simulation(row, env, store, sub)
              u == update_statistics(stats, r.result)
          IN  /\ store' = r.store
              /\ sub' = r.sub
              /\ stats' = u.stats
              /\ log' = Append(log, [row |-> row, env |-> env, result |-> r.result,
                                     wrote |-> SubSeq(r.store, Len(store) + 1, Len(r.store))])
              /\ IF u.exc # "ok"
                 THEN /\ Raise(u.exc, u.site)
                      /\ UNCHANGED idx
                 ELSE /\ idx' = idx + 1
                      /\ pc' = IF idx + 1 > EndIdx THEN "pause" ELSE "run_batch"
                      /\ UNCHANGED exc
    /\ UNCHANGED <<csv, df, BATCH_SIZE, resume, aspenOpen, dbOpen, batch_num,
                   total_batches, ret, summaryPrinted, interrupted, filtered, reported,
                   runNo>>
    /\ UNCHANGED <<doe, mx, batches, sim, past>>

\* pause_between_batches (lines 243-272) and the loop control of run()
\* (lines 365, 375-377)
pause_between_batches ==
    /\ pc = "pause"
    /\ LET p == print_summary(stats)
       IN  IF p # "ok"
           THEN /\ Raise(p, "print_summary")
                /\ UNCHANGED <<batch_num, interrupted>>
           ELSE /\ \E ctrl_c \in BOOLEAN :
                     /\ interrupted' =
                            (PAUSE_BETWEEN_BATCHES /\ batch_num < total_batches /\ ctrl_c)
                     /\ IF interrupted' \/ batch_num = total_batches
                        THEN /\ pc' = "final"
                             /\ UNCHANGED batch_num
                        ELSE /\ pc' = "run_batch"
                             /\ batch_num' = batch_num + 1
                /\ UNCHANGED exc
    /\ UNCHANGED <<stats, csv, df, BATCH_SIZE, resume, store, sub, aspenOpen, dbOpen, idx,
                   total_batches, ret, summaryPrinted, filtered, reported, log, runNo>>
    /\ UNCHANGED <<doe, mx, batches, sim, past>>

\* run(), steps 7-9 (lines 379-398): final summary, store statistics, cleanup
final_summary ==
    /\ pc = "final"
    /\ LET p == print_summary(stats)
       IN  IF p # "ok"
           THEN /\ Raise(p, "print_summary")
                /\ UNCHANGED <<summaryPrinted, aspenOpen, dbOpen, ret>>
           ELSE /\ summaryPrinted' = TRUE
                /\ aspenOpen' = FALSE
                /\ dbOpen' = FALSE
                /\ Return("True")
                /\ UNCHANGED exc
    /\ UNCHANGED <<stats, csv, df, BATCH_SIZE, resume, store, sub, batch_num, idx,
                   total_batches, interrupted, filtered, reported, log, runNo>>
    /\ UNCHANGED <<doe, mx, batches, sim, past>>

\* main() is started again (lines 431-432): a new process, a new
\* AutomationRunner, run(resume=True); the store and the files persist.
main ==
    /\ pc \in Terminated
    /\ runNo < MaxRuns
    /\ runNo' = runNo + 1
    /\ pc' = "connect_aspen"
    /\ stats' = InitStats
    /\ df' = <<>>
    /\ resume' = TRUE
    /\ aspenOpen' = FALSE
    /\ dbOpen' = FALSE
    /\ batch_num' = 0
    /\ idx' = 0
    /\ total_batches' = 0
    /\ ret' = "none"
    /\ exc' = NoExc
    /\ summaryPrinted' = FALSE
    /\ interrupted' = FALSE
    /\ filtered' = FALSE
    /\ reported' = {}
    /\ log' = <<>>
    /\ past' = past \o log
    /\ UNCHANGED <<csv, BATCH_SIZE, store, sub>>
    /\ UNCHANGED <<doe, mx, batches, sim>>

(***************************************************************************)
(* One execution of run().                                                 *)
(***************************************************************************)
Next ==
    \/ aspen_connect
    \/ aspen_load_model
    \/ db_connect
    \/ load_simulation_matrix
    \/ resume_filter
    \/ run_batch
    \/ pause_between_batches
    \/ final_summary

Spec == Init /\ [][Next]_vars

(***************************************************************************)
(* A fresh installation (empty store) on which main() is run, and run      *)
(* again after each termination, up to MaxRuns times.                      *)
(***************************************************************************)
InitMain ==
    /\ Init
    /\ store = <<>>
    /\ resume = TRUE

NextRuns ==
    \/ Next
    \/ main

SpecRuns == InitMain /\ [][NextRuns]_vars

-----------------------------------------------------------------------------
(***************************************************************************)
(* The data-preparation scripts and the batch loop of run() on their own.  *)
(* Each is a program (or a pure computation) whose inputs Init draws from  *)
(* bounded sets; the runner's variables rest meanwhile.                    *)
(***************************************************************************)
runVars == <<pc, stats, csv, df, BATCH_SIZE, resume, store, sub, aspenOpen, dbOpen,
             batch_num, idx, total_batches, ret, exc, summaryPrinted, interrupted,
             filtered, reported, log, runNo>>

\* the runner's variables other than pc, df and BATCH_SIZE, at rest
IdleRun ==
    /\ stats = InitStats
    /\ csv = <<>>
    /\ resume = FALSE
    /\ store = <<>>
    /\ sub = {}
    /\ aspenOpen = FALSE
    /\ dbOpen = FALSE
    /\ batch_num = 0
    /\ idx = 0
    /\ total_batches = 0
    /\ ret = "none"
    /\ exc = NoExc
    /\ summaryPrinted = FALSE
    /\ interrupted = FALSE
    /\ filtered = FALSE
    /\ reported = {}
    /\ log = <<>>
    /\ runNo = 1

(***************************************************************************)
(* generate_doe_matrix.py, main() (lines 209-262).  PARAMETERS is the      *)
(* declared dict or any dict whose three entries are taken from            *)
(* ParamCases: an increasing, a constant or a decreasing range with -1 to  *)
(* MaxLevels levels.                                                       *)
(***************************************************************************)
ParamCases ==
    {[min |-> r[1], max |-> r[2], levels |-> l] :
        r \in {<<1, 3>>, <<2, 2>>, <<3, 1>>}, l \in (0 - 1)..MaxLevels}

InitDOE ==
    /\ pc = "idle"
    /\ df = <<>>
    /\ BATCH_SIZE = 1
    /\ IdleRun
    /\ \E P \in {PARAMETERS} \cup [ParamNames -> ParamCases] :
          doe = [DoeIdle EXCEPT !.pc = "generate", !.params = P]
    /\ mx = MxIdle
    /\ batches = <<>>
    /\ sim = SimIdle
    /\ past = <<>>

\* main(), step 1 (lines 227-229): generate_doe_matrix; a negative number of
\* levels makes np.linspace raise ValueError, which main() turns into exit 1
doe_generate ==
    /\ doe.pc = "generate"
    /\ IF \E param \in ParamNames : doe.params[param].levels < 0
       THEN doe' = [doe EXCEPT !.pc = "exited", !.exit = "1"]
       ELSE doe' = [doe EXCEPT !.pc = "validate",
                               !.levels = [param \in ParamNames |->
                                              generate_parameter_levels(doe.params[param])],
                               !.df = generate_doe_matrix(doe.params)]
    /\ UNCHANGED <<runVars, mx, batches, sim, past>>

\* main(), step 2 (lines 231-234): a failed validation raises ValueError
doe_validate ==
    /\ doe.pc = "validate"
    /\ IF validate_doe_matrix(doe.df, doe.params)
       THEN doe' = [doe EXCEPT !.pc = "save", !.valid = TRUE]
       ELSE doe' = [doe EXCEPT !.pc = "exited", !.exit = "1"]
    /\ UNCHANGED <<runVars, mx, batches, sim, past>>

\* main(), steps 3-4 and the return (lines 236-262) with save_to_csv
\* (lines 191-206): the file system may refuse the write
doe_save ==
    /\ doe.pc = "save"
    /\ \E ok \in BOOLEAN :
          IF ok
          THEN doe' = [doe EXCEPT !.pc = "exited", !.exit = "0",
                                  !.file = [written |-> TRUE, rows |-> doe_to_csv(doe.df)]]
          ELSE doe' = [doe EXCEPT !.pc = "exited", !.exit = "1"]
    /\ UNCHANGED <<runVars, mx, batches, sim, past>>

NextDOE ==
    \/ doe_generate
    \/ doe_validate
    \/ doe_save

SpecDOE == InitDOE /\ [][NextDOE]_vars

(***************************************************************************)
(* create_simulation_matrix.py, main() (lines 278-333).  The bio-oil file  *)
(* holds up to MaxCompositions rows whose ids need not differ, the DOE     *)
(* file the conditions 1..K.                                               *)
(***************************************************************************)
BiooilFiles ==
    UNION {[1..m -> {[BiooilId |-> b] : b \in 1..ForeignId}] : m \in 0..MaxCompositions}

DoeFiles ==
    {[j \in 1..K |-> [ConditionId |-> j]] : K \in 0..MaxConditions}

InitMatrix ==
    /\ pc = "idle"
    /\ df = <<>>
    /\ BATCH_SIZE = 1
    /\ IdleRun
    /\ doe = DoeIdle
    /\ \E b \in BiooilFiles, d \in DoeFiles :
          mx = [MxIdle EXCEPT !.pc = "load", !.biooil_file = b, !.doe_file = d]
    /\ batches = <<>>
    /\ sim = SimIdle
    /\ past = <<>>

\* main(), step 1 (lines 289-291) with load_input_files (lines 46-76): a
\* file that cannot be read raises, and main() exits with 1
mx_load ==
    /\ mx.pc = "load"
    /\ \E ok \in BOOLEAN :
          IF ok
          THEN mx' = [mx EXCEPT !.pc = "create", !.biooil_df = mx.biooil_file,
                                !.doe_df = mx.doe_file]
          ELSE mx' = [mx EXCEPT !.pc = "exited", !.exit = "1"]
    /\ UNCHANGED <<runVars, doe, batches, sim, past>>

\* main(), steps 2-3 (lines 293-299): create_simulation_matrix, and
\* organize_columns, which reorders the columns only
mx_create ==
    /\ mx.pc = "create"
    /\ mx' = [mx EXCEPT !.pc = "validate",
                        !.sim_matrix = create_simulation_matrix(mx.biooil_df, mx.doe_df)]
    /\ UNCHANGED <<runVars, doe, batches, sim, past>>

\* main(), step 4 (lines 301-303): the result of validate_simulation_matrix
\* is printed and dropped
mx_validate ==
    /\ mx.pc = "validate"
    /\ mx' = [mx EXCEPT !.pc = "save", !.validated = TRUE,
                        !.valid = validate_simulation_matrix(mx.sim_matrix)]
    /\ UNCHANGED <<runVars, doe, batches, sim, past>>

\* main(), steps 5-6 and the return (lines 305-333) with save_to_csv
\* (lines 258-275); the ids are integers, which to_csv writes as they are
mx_save ==
    /\ mx.pc = "save"
    /\ \E ok \in BOOLEAN :
          IF ok
          THEN mx' = [mx EXCEPT !.pc = "exited", !.exit = "0",
                                !.file = [written |-> TRUE, rows |-> mx.sim_matrix]]
          ELSE mx' = [mx EXCEPT !.pc = "exited", !.exit = "1"]
    /\ UNCHANGED <<runVars, doe, batches, sim, past>>

NextMatrix ==
    \/ mx_load
    \/ mx_create
    \/ mx_validate
    \/ mx_save

SpecMatrix == InitMatrix /\ [][NextMatrix]_vars

(***************************************************************************)
(* The batch loop of run() (lines 361-377) as a computation on the         *)
(* worklist: run_batch and the pause are left out, each iteration takes    *)
(* its slice df.iloc[start_idx:end_idx].                                   *)
(***************************************************************************)
InitBatches ==
    /\ pc = "plan_batches"
    /\ \E N \in 0..MaxWorklist : df = MatrixFile(N, 1)
    /\ BATCH_SIZE \in 1..MaxSlice
    /\ IdleRun
    /\ doe = DoeIdle
    /\ mx = MxIdle
    /\ batches = <<>>
    /\ sim = SimIdle
    /\ past = <<>>

\* line 362
plan_batches ==
    /\ pc = "plan_batches"
    /\ total_batches' = TotalBatches(Len(df), BATCH_SIZE)
    /\ batch_num' = 1
    /\ pc' = IF total_batches' = 0 THEN "batched" ELSE "take_batch"
    /\ UNCHANGED <<stats, csv, df, BATCH_SIZE, resume, store, sub, aspenOpen, dbOpen, idx,
                   ret, exc, summaryPrinted, interrupted, filtered, reported, log, runNo,
                   doe, mx, batches, sim, past>>

\* line 367
StartIdx == (batch_num - 1) * BATCH_SIZE

\* lines 365-369: one iteration of for batch_num in range(1, total_batches + 1)
take_batch ==
    /\ pc = "take_batch"
    /\ batches' = Append(batches, SubSeq(df, StartIdx + 1, EndIdx))
    /\ IF batch_num = total_batches
       THEN /\ pc' = "batched"
            /\ UNCHANGED batch_num
       ELSE /\ batch_num' = batch_num + 1
            /\ UNCHANGED pc
    /\ UNCHANGED <<stats, csv, df, BATCH_SIZE, resume, store, sub, aspenOpen, dbOpen, idx,
                   total_batches, ret, exc, summaryPrinted, interrupted, filtered, reported,
                   log, runNo, doe, mx, sim, past>>

NextBatches ==
    \/ plan_batches
    \/ take_batch

SpecBatches == InitBatches /\ [][NextBatches]_vars

(***************************************************************************)
(* One call of AspenInterface.run_simulation (aspen_interface.py, lines    *)
(* 145-190).  The clock counts whole seconds from start_time.  The call    *)
(* gets its timeout as an argument; the simulator makes the convergence    *)
(* status readable at ready_at, or never; Run2 and every sleep take        *)
(* a time the environment chooses, a sleep at least one second.            *)
(***************************************************************************)
InitSim ==
    /\ pc = "idle"
    /\ df = <<>>
    /\ BATCH_SIZE = 1
    /\ IdleRun
    /\ doe = DoeIdle
    /\ mx = MxIdle
    /\ batches = <<>>
    /\ past = <<>>
    /\ \E T \in 0..MaxTimeout, r \in {Never} \cup 0..(MaxTimeout + MaxTick),
          o \in {"Converged", "Errors"} :
          sim = [SimIdle EXCEPT !.pc = "run2", !.timeout = T, !.ready_at = r, !.outcome = o]

\* lines 158-165: Engine.Run2() returns after d seconds, or raises, which
\* the handler of lines 188-190 turns into False
sim_run2 ==
    /\ sim.pc = "run2"
    /\ \E ok \in BOOLEAN, d \in 0..MaxTick :
          IF ok
          THEN sim' = [sim EXCEPT !.pc = "poll", !.now = d, !.elapsed = 0]
          ELSE sim' = [sim EXCEPT !.pc = "returned", !.now = d, !.ret = FALSE]
    /\ UNCHANGED <<runVars, doe, mx, batches, past>>

\* lines 166-176: the test of the while loop and one iteration
sim_poll ==
    /\ sim.pc = "poll"
    /\ IF sim.elapsed < sim.timeout
       THEN IF get_convergence_status(sim, sim.now) # "None"
            THEN sim' = [sim EXCEPT !.pc = "final", !.polls = @ + 1]
            ELSE \E d \in 1..MaxTick :
                    sim' = [sim EXCEPT !.now = @ + d, !.elapsed = sim.now + d,
                                       !.polls = @ + 1]
       ELSE sim' = [sim EXCEPT !.pc = "final"]
    /\ UNCHANGED <<runVars, doe, mx, batches, past>>

\* lines 178-186: the status is read once more and decides the result
sim_final ==
    /\ sim.pc = "final"
    /\ sim' = [sim EXCEPT !.pc = "returned",
                          !.ret = (get_convergence_status(sim, sim.now) = "Converged")]
    /\ UNCHANGED <<runVars, doe, mx, batches, past>>

NextSim ==
    \/ sim_run2
    \/ sim_poll
    \/ sim_final

\* the interpreter goes on executing the call: a sleep returns
SpecSim == InitSim /\ [][NextSim]_vars /\ WF_vars(NextSim)


-----------------------------------------------------------------------------
(***************************************************************************)
(* Vocabulary of the properties.                                           *)
(***************************************************************************)
\* this step executed one task, which ended with result r
TaskEnded(r) ==
    /\ Len(log') = Len(log) + 1
    /\ log'[Len(log')].result = r

\* the value of a counter; a counter the dict does not hold counts nothing
Counter(s, k) == IF k \in DOMAIN s THEN s[k] ELSE 0

\* the rows executed so far in this run, in order
Executed == [i \in 1..Len(log) |-> log[i].row]

\* the task's execution went wrong after the simulator call had returned
\* convergence: extraction or a store write failed or raised
FailedAfterSimulator(env) ==
    \/ env.fail \in {"extract_h2", "insert_header", "late_raise"}
    \/ env.subFail # {}

\* C1: a task that ends in 'error' does not stop the run (the next task, or
\* the pause after the batch, comes next) and raises the run's error counter
\* by exactly 1.
C1_FailureIsolation ==
    [][TaskEnded("error") =>
          /\ pc' \in {"run_batch", "pause"}
          /\ Counter(stats', "error") = Counter(stats, "error") + 1]_vars

\* C2: a run whose connects and matrix load succeeded and that was not
\* interrupted ends only after every task of the filtered worklist was
\* executed exactly once, with the final summary printed and the cleanup done.
C2_EveryTaskExecuted ==
    (pc \in Terminated /\ total_batches >= 1 /\ ~interrupted) =>
        /\ Executed = df
        /\ summaryPrinted
        /\ ret = "True"
        /\ ~aspenOpen
        /\ ~dbOpen

\* C3: after the resume step of a run with resume enabled, the worklist
\* holds no task whose BiooilId the store reported as completed, holds every
\* other task of the matrix, in the order of the matrix, and only tasks of
\* the worklist are executed.
C3_ResumeFilter ==
    (filtered /\ resume) =>
        /\ \A i \in 1..Len(df) : df[i].BiooilId \notin reported
        /\ \A j \in 1..Len(csv) :
              csv[j].BiooilId \notin reported => \E i \in 1..Len(df) : df[i] = csv[j]
        /\ \A i, k \in 1..Len(df) :
              i < k => \E a, b \in 1..Len(csv) : a < b /\ csv[a] = df[i] /\ csv[b] = df[k]
        /\ \A i \in 1..Len(log) :
              /\ log[i].row.BiooilId \notin reported
              /\ \E k \in 1..Len(df) : df[k] = log[i].row

\* C3 witness: a resumed run whose store reported a composition of the
\* matrix, with tasks removed, tasks kept, and a kept task executed.
C3_Witness ==
    /\ filtered
    /\ resume
    /\ \E j \in 1..Len(csv) : csv[j].BiooilId \in reported
    /\ Len(df) >= 2
    /\ Len(df) < Len(csv)
    /\ Len(log) >= 1

\* C4: after the resume step the skipped counter is the number of tasks
\* removed from the worklist.
C4_SkippedCount ==
    (filtered /\ resume) => stats["skipped"] = Len(csv) - Len(df)

\* C5: every executed task has written a record of its outcome to the store
\* by the time it has ended: a Converged header for 'converged', a Failed
\* header for 'failed', some header for 'error'.
C5_OutcomeRecorded ==
    \A i \in 1..Len(log) :
        \E k \in 1..Len(log[i].wrote) :
            CASE log[i].result = "converged" -> log[i].wrote[k].ConvergenceStatus = "Converged"
              [] log[i].result = "failed" -> log[i].wrote[k].ConvergenceStatus = "Failed"
              [] OTHER -> TRUE

\* C6: a task ends 'converged' only if the simulator reported convergence
\* and no step threw or failed before the result was stored, 'failed' only if the
\* simulator run completed without raising and did not converge, and 'error'
\* whenever a step throws, the simulator run included.
C6_TaskStateMachine ==
    \A i \in 1..Len(log) :
        /\ log[i].result = "converged" => log[i].env.fail = "none"
        /\ log[i].result = "failed" => log[i].env.fail \in {"no_converge", "timeout"}
        /\ log[i].env.fail \in {"prepare", "run_raise", "late_raise"} => log[i].result = "error"

\* C7: a task one of whose store inserts failed is not 'converged' and is
\* not counted as converged.
C7_InsertFailureIsError ==
    /\ \A i \in 1..Len(log) :
          (log[i].env.fail = "insert_header" \/ log[i].env.subFail # {})
              => log[i].result # "converged"
    /\ stats["converged"] <=
          Cardinality({i \in 1..Len(log) : log[i].env.fail = "none" /\ log[i].env.subFail = {}})

\* C8: a task whose execution fails after the simulator call returned does
\* not add to the set of composition ids the store reports as completed.
C8_FailedTaskRetryable ==
    [][(\E r \in {"converged", "failed", "error"} : TaskEnded(r))
          /\ FailedAfterSimulator(log'[Len(log')].env)
       => get_completed_simulations(store', TRUE) = get_completed_simulations(store, TRUE)]_vars

\* C9: whenever run() has terminated, the final summary has been printed.
C9_SummaryAlwaysPrinted ==
    pc \in Terminated => summaryPrinted

\* C10: print_summary and print_progress never raise.
C10_ReporterNeverRaises ==
    exc.site \notin {"print_summary", "print_progress"}

-----------------------------------------------------------------------------
(***************************************************************************)
(* The batch partition, the matrix builder and the DOE generator.          *)
(***************************************************************************)
\* the least k with k * B >= N
Ceil(N, B) == CHOOSE k \in 0..N : k * B >= N /\ \A j \in 0..N : j * B >= N => k <= j

\* the sizes of the batches taken, in order
BatchSizes == [i \in 1..Len(batches) |-> Len(batches[i])]

MatrixCreated == mx.pc \in {"validate", "save"} \/ mx.validated

\* the rows of a frame have pairwise different values in column col
Distinct(d, col) == \A i, j \in 1..Len(d) : i # j => d[i][col] # d[j][col]

\* the invariants of a matrix of M compositions (the rows of b) and K conditions
MatrixInvariants(m, b, K) ==
    /\ Len(m) = Len(b) * K
    /\ Distinct(m, "SimulationId")
    /\ \A c \in 1..Len(b) :
          Cardinality({i \in 1..Len(m) : m[i].BiooilId = b[c].BiooilId}) = K

\* C12: for M compositions and K conditions with distinct identifiers the
\* matrix has exactly M * K tasks, its SimulationIds are pairwise distinct
\* and are exactly 1..M*K, and every composition id appears in exactly K
\* tasks.
C12_MatrixCrossProduct ==
    (MatrixCreated /\ Distinct(mx.biooil_df, "BiooilId")
                   /\ Distinct(mx.doe_df, "ConditionId"))
        => /\ MatrixInvariants(mx.sim_matrix, mx.biooil_df, Len(mx.doe_df))
           /\ {mx.sim_matrix[i].SimulationId : i \in 1..Len(mx.sim_matrix)}
                 = 1..(Len(mx.biooil_df) * Len(mx.doe_df))

C12_Witness ==
    /\ mx.pc = "validate"
    /\ Len(mx.biooil_df) = 2
    /\ Len(mx.doe_df) = 2
    /\ Distinct(mx.biooil_df, "BiooilId")
    /\ Len(mx.sim_matrix) = 4
    /\ mx.sim_matrix[4].SimulationId = 4

\* C13: a matrix that breaks an invariant for its actual M and K makes the
\* script fail with an error and write no matrix file, and a matrix that
\* satisfies them passes validation.
C13_AbortOnInvalidMatrix ==
    mx.validated =>
        IF MatrixInvariants(mx.sim_matrix, mx.biooil_df, Len(mx.doe_df))
        THEN mx.valid
        ELSE /\ ~mx.file.written
             /\ mx.pc = "exited" => mx.exit = "1"

\* a parameter spec is valid
ValidSpec(c) == c.min < c.max /\ c.levels >= 1

\* generate_doe_matrix has returned a frame in this execution of the script
DoeGenerated ==
    /\ doe.pc \in {"validate", "save", "exited"}
    /\ \A param \in ParamNames : doe.params[param].levels >= 0

\* C14: for valid specs with level counts L1, L2, L3 the frame has exactly
\* L1 * L2 * L3 rows and no combination of values twice.
C14_DoeCount ==
    (DoeGenerated /\ \A param \in ParamNames : ValidSpec(doe.params[param]))
        => /\ Len(doe.df) = doe.params.ReformerTemperature_C.levels
                                * doe.params.ReformerPressure_bar.levels
                                * doe.params.SteamToCarbonRatio.levels
           /\ \A i, j \in 1..Len(doe.df) :
                 i # j => Combination(doe.df[i]) # Combination(doe.df[j])

C14_Witness ==
    /\ doe.params = PARAMETERS
    /\ doe.pc = "validate"
    /\ Len(doe.df) = 45

\* the levels l start at lo, end at hi, increase strictly and are evenly spaced
SpansRange(l, lo, hi) ==
    /\ l[1].num = lo * l[1].den
    /\ l[Len(l)].num = hi * l[Len(l)].den
    /\ \A i \in 1..(Len(l) - 1) : Less(l[i], l[i + 1])
    /\ \A i \in 1..(Len(l) - 2) :
          (l[i + 1].num - l[i].num) * l[i + 2].den * l[i + 1].den
              = (l[i + 2].num - l[i + 1].num) * l[i + 1].den * l[i].den

C16_InvalidSpecRejected ==
    (\E param \in ParamNames : ~ValidSpec(doe.params[param]))
        => /\ ~doe.file.written
           /\ doe.pc = "exited" => doe.exit = "1"

\* C17: the row of the i-th temperature, j-th pressure and k-th S/C level
\* (counted from 0) is at position i * Lp * Ls + j * Ls + k + 1, and the
\* ConditionIds are 1..N by position.
C17_DoeOrdering ==
    DoeGenerated =>
        LET t == doe.levels.ReformerTemperature_C
            p == doe.levels.ReformerPressure_bar
            s == doe.levels.SteamToCarbonRatio
        IN  /\ \A n \in 1..Len(doe.df) : doe.df[n].ConditionId = n
            /\ \A i \in 0..(Len(t) - 1), j \in 0..(Len(p) - 1), k \in 0..(Len(s) - 1) :
                  LET n == i * Len(p) * Len(s) + j * Len(s) + k + 1
                  IN  /\ n \in 1..Len(doe.df)
                      /\ Combination(doe.df[n]) = <<t[i + 1], p[j + 1], s[k + 1]>>

C17_Witness ==
    /\ doe.params = PARAMETERS
    /\ doe.pc = "save"
    /\ doe.df[45].ConditionId = 45
    /\ doe.df[2].SteamToCarbonRatio = Q(8, 2)
    /\ doe.df[4].ReformerPressure_bar = Q(35, 2)
    /\ doe.df[10].ReformerTemperature_C = Q(2800, 4)

(***************************************************************************)
(* Fatal and non-fatal failures of run(); cancellation.                    *)
(***************************************************************************)
\* C19: a failure to connect to the simulator, to load the model or to
\* connect to the store makes run() return failure with no task executed
\* and no record written, and no task that fails or errs ends the run.
C19_OnlyConnectFailuresFatal ==
    [][/\ (pc \in {"connect_aspen", "load_model", "connect_db"} /\ pc' \in Terminated)
             => /\ ret' = "False"
                /\ exc' = NoExc
                /\ log' = <<>>
                /\ store' = store
                /\ sub' = sub
       /\ (TaskEnded("failed") \/ TaskEnded("error")) => pc' \notin Terminated]_vars

\* C20: after the operator has interrupted the pause that follows batch b,
\* no task of a later batch is executed, no record changes, and the run
\* goes on to the final summary and returns True.
C20_Cancellation ==
    [][interrupted
          => /\ Len(log') = Len(log)
             /\ store' = store
             /\ sub' = sub
             /\ pc' = "returned"
             /\ ret' = "True"]_vars

\* the operator's interrupt is never taken: print_summary raises at the head
\* of pause_between_batches, before the prompt
C20_PauseNeverInterrupted == ~interrupted

-----------------------------------------------------------------------------
(***************************************************************************)
(* Store records, counters, the simulator timeout, resume across runs and  *)
(* the release of the handles.                                             *)
(***************************************************************************)
\* C21: the status of a header written by a task that ended 'failed' (the
\* simulator did not converge) differs from the status of a header written
\* by a task that ended 'error'.
C21_FailedErrorDistinguishable ==
    \A i, j \in 1..Len(log) :
        (log[i].result = "failed" /\ log[j].result = "error")
            => \A a \in 1..Len(log[i].wrote), b \in 1..Len(log[j].wrote) :
                  log[i].wrote[a].ConvergenceStatus # log[j].wrote[b].ConvergenceStatus

CounterNames == {"completed", "converged", "failed", "error", "skipped"}

\* C22: the counters are zero when run() starts, no counter ever decreases,
\* and completed grows by exactly 1 in a step that executes a task and by
\* nothing in any other step.
C22_CountersMonotone ==
    /\ [](pc = "connect_aspen" => \A k \in CounterNames : Counter(stats, k) = 0)
    /\ [][/\ \A k \in CounterNames : Counter(stats', k) >= Counter(stats, k)
          /\ stats'["completed"] = stats["completed"] + (Len(log') - Len(log))]_vars

\* the headers the tasks of this run wrote, task by task
WrittenByRun == Concat([i \in 1..Len(log) |-> log[i].wrote])

\* the store as it was when this run started
StoreAtStart == SubSeq(store, 1, Len(store) - Len(WrittenByRun))

\* C23: the tasks are executed in the order of the worklist, every header a
\* task wrote is a header of that task's composition (and of that task's
\* SimulationId when it is a Converged one), and the headers of the run
\* stand in the store in the order of their tasks, after everything the
\* store held before.
C23_PersistOrder ==
    /\ \A i \in 1..Len(log) :
          /\ log[i].row = df[i]
          /\ \A k \in 1..Len(log[i].wrote) :
                /\ log[i].wrote[k].Biooil_Id = log[i].row.BiooilId
                /\ log[i].wrote[k].ConvergenceStatus = "Converged"
                      => log[i].wrote[k].Notes = log[i].row.SimulationId
    /\ Len(WrittenByRun) <= Len(store)
    /\ SubSeq(store, Len(store) - Len(WrittenByRun) + 1, Len(store)) = WrittenByRun

C23_Witness ==
    /\ Len(log) = 2
    /\ Len(StoreAtStart) = 1
    /\ log[1].wrote # <<>>
    /\ log[2].wrote # <<>>
    /\ log[1].row.BiooilId # StoreAtStart[1].Biooil_Id

\* C24: every call of run_simulation returns, and a call during which no
\* status became readable until the timeout had elapsed returns False (the
\* task then ends 'failed').
C24_SimulatorTimeout ==
    /\ <>(sim.pc = "returned")
    /\ []((sim.pc = "returned" /\ (sim.ready_at = Never \/ sim.ready_at > sim.timeout))
             => ~sim.ret)

C26_FineGrainedResume ==
    (filtered /\ resume) =>
        \A j \in 1..Len(csv) :
            (\A i \in 1..Len(df) : df[i] # csv[j])
                => \E k \in 1..Len(past) :
                      /\ past[k].row = csv[j]
                      /\ past[k].result \in {"converged", "failed"}

\* the tasks of this run that ended 'error'
ErroredTasks == {i \in 1..Len(log) : log[i].result = "error"}

\* C27: completed is the sum of the converged and failed counters and the
\* number of tasks that ended 'error' (what the error counter stands for),
\* and completed does not exceed the length of the filtered worklist.
C27_CounterConsistency ==
    /\ stats["completed"] = stats["converged"] + stats["failed"] + Cardinality(ErroredTasks)
    /\ Counter(stats, "error") = Cardinality(ErroredTasks)
    /\ filtered => stats["completed"] <= Len(df)

\* C28: an executed task wrote at most one header, a task that wrote a
\* Converged header ended 'converged', and the number of Converged headers
\* written by this run is the converged counter.
C28_StoreOutcomeAgreement ==
    /\ \A i \in 1..Len(log) :
          /\ Len(log[i].wrote) <= 1
          /\ \A k \in 1..Len(log[i].wrote) :
                log[i].wrote[k].ConvergenceStatus = "Converged" => log[i].result = "converged"
    /\ Cardinality({k \in 1..Len(WrittenByRun) :
                       WrittenByRun[k].ConvergenceStatus = "Converged"}) = stats["converged"]

\* C29: a run with resume enabled executes no task whose composition had a
\* Converged or Failed header in the store when the run started.
C29_ResumeFallibleStore ==
    resume =>
        \A i \in 1..Len(log) :
            log[i].row.BiooilId \notin get_completed_simulations(StoreAtStart, TRUE)

\* C30: when run() has returned, the simulator session and the store
\* connection are closed.
C30_HandlesReleased ==
    pc = "returned" => (~aspenOpen /\ ~dbOpen)

=============================================================================
